---- MODULE Spec2Model ----
(***************************************************************************)
(* agentage/cli: the device-authorization login protocol                   *)
(* (services/auth.service), the credential store (utils/config), the       *)
(* session commands (commands/login, logout, whoami) and the agent         *)
(* commands (commands/publish, install) with the registry client           *)
(* (services/registry.service).                                            *)
(*                                                                         *)
(* Time is the value of Date.now() in milliseconds.  An optional value     *)
(* (a JavaScript value that may be undefined) is a sequence of length 0    *)
(* or 1.                                                                   *)
(*                                                                         *)
(* Spec runs the session commands and the calls of the store, and          *)
(* SpecRegistry the agent commands, on a filesystem that does not fail:    *)
(* readFile fails only on a missing file, mkdir, writeFile and rm          *)
(* succeed.  SpecFs runs the store on a filesystem whose operations may    *)
(* fail.                                                                   *)
(***************************************************************************)
EXTENDS Integers, Sequences, FiniteSets, TLC

VARIABLES
    disk,            \* the file ~/.agentage/config.json
    envToken,        \* process.env.AGENTAGE_AUTH_TOKEN of the running command
    envUrl,          \* process.env.AGENTAGE_REGISTRY_URL of the running command
    now,             \* Date.now()
    cmd,             \* the command the process runs
    pc,              \* its position
    config,          \* the command's `config` local (its first loadConfig)
    deviceCode,      \* login: the DeviceCodeResponse
    sentDeviceId,    \* requestDeviceCode: the device_id put in the request
    plan,            \* token endpoint: <<n>> = pending n times then success
    expiryTime,      \* pollForToken: expiryTime
    currentInterval, \* pollForToken: currentInterval
    requests,        \* number of token-endpoint requests sent by this poll
    slowDowns,       \* number of slow_down replies this poll received
    lastWait,        \* the delay waited before the latest token request
    reqTimes,        \* the send times of the latest two token requests
    reply,           \* the latest reply of the registry
    result,          \* what the latest service call returned or raised
    savedAt,         \* login: Date.now() when the auth entry was built
    query,           \* the latest answers of the store's read operations
    out,             \* what the command printed last and its exit code
    calls,           \* the calls the running command made, in order
    ids,             \* the ids its getDeviceId calls returned, in order
    agentFiles,      \* the agent file at each install location
    args,            \* the arguments and the surroundings of the running command
    procs            \* two invocations at once: the position and the locals of each

vars == <<disk, envToken, envUrl, now, cmd, pc, config,
          deviceCode, sentDeviceId, plan, expiryTime, currentInterval,
          requests, slowDowns, lastWait, reqTimes, reply, result, savedAt,
          query, out, calls, ids, agentFiles, args, procs>>

----------------------------------------------------------------------------
(* Bounds of the model *)

MaxStartSec == 2      \* a command starts while the clock is below this
MaxInterval == 2      \* DeviceCodeResponse.interval is in 1..MaxInterval
MaxExpiresIn == 3     \* DeviceCodeResponse.expires_in is in 0..MaxExpiresIn
MaxPending == 2       \* a planned server replies pending 0..MaxPending times
MaxTokenTtl == 1      \* TokenResponse.expires_in is absent or 0..MaxTokenTtl
MaxNameLen == 3       \* a frontmatter name has 0..MaxNameLen characters
LagMs == 500          \* a timer overshoot or a network latency is 0 or LagMs

(* Program constants *)

MsPerSecond == 1000   \* `expiresIn * 1000`, `currentInterval * 1000`
SlowDownStep == 5     \* `currentInterval += 5`

----------------------------------------------------------------------------
(* Optional values and JavaScript truthiness *)

None == <<>>
Some(x) == <<x>>
IsSome(o) == o # <<>>
Val(o) == o[1]

\* `if (s)` / `s || d` on an optional string
Truthy(o) == IsSome(o) /\ Val(o) # ""
OrElse(o, d) == IF Truthy(o) THEN Val(o) ELSE d

----------------------------------------------------------------------------
(* Data model: types/config.types.ts *)

Tokens == {"tokA"}
ValidUser == "user:a@b.com"      \* satisfies userSchema
InvalidUser == "user:not-an-email"  \* violates userSchema (z.string().email())
Users == {ValidUser, InvalidUser}
DEFAULT_REGISTRY_URL == "https://dev.agentage.io"
ConfigUrl == "https://registry.example"
InvalidUrl == "not a url"        \* violates z.string().url()

\* new Date(ms).toISOString() and new Date(text): an ISO-8601 text carries the
\* millisecond count it was formatted from.
ToISOString(ms) == [iso |-> ms]
DateParse(text) == text.iso

EmptyConfig == [auth |-> None, registry |-> None, deviceId |-> None]

\* userSchema
UserValid(u) == u # InvalidUser

\* authConfigSchema: token a string, expiresAt a datetime text, user a User
AuthValid(a) == ~IsSome(a.user) \/ UserValid(Val(a.user))

\* registryConfigSchema: url an URL text, with a default
RegistryValid(r) == ~IsSome(r.url) \/ Val(r.url) # InvalidUrl
RegistryParsed(r) == [url |-> Some(OrElse(r.url, DEFAULT_REGISTRY_URL))]

\* agentageConfigSchema.parse: raises on a violation (SchemaValid is false),
\* otherwise returns the document with the schema's defaults filled in.
SchemaValid(c) ==
    /\ ~IsSome(c.auth) \/ AuthValid(Val(c.auth))
    /\ ~IsSome(c.registry) \/ RegistryValid(Val(c.registry))
SchemaParse(c) ==
    [c EXCEPT !.registry =
        IF IsSome(c.registry) THEN Some(RegistryParsed(Val(c.registry))) ELSE None]

----------------------------------------------------------------------------
(* Credential store: utils/config.ts *)

Missing == [kind |-> "missing", cfg |-> EmptyConfig]
NotJson == [kind |-> "notjson", cfg |-> EmptyConfig]
JsonFile(c) == [kind |-> "json", cfg |-> c]

\* Mutant of LoadConfig: a document that violates the schema is returned as read
LoadConfigUnchecked(d) ==
    IF d.kind = "json" THEN SchemaParse(d.cfg) ELSE EmptyConfig

\* loadConfig: readFile, JSON.parse, schema parse; {} when any of them raises
LoadConfig(d) ==
    IF d.kind = "json" /\ SchemaValid(d.cfg) THEN SchemaParse(d.cfg) ELSE EmptyConfig

\* saveConfig: mkdir, then writeFile(JSON.stringify(config)); an undefined
\* property is left out of the text, which is what None stands for.
SaveConfig(c) == JsonFile(c)

\* Mutant of ClearConfig: the file is left in place
ClearConfigKeepsFile(d) == d

\* clearConfig: rm of the file
ClearConfig(d) == Missing

\* Mutant of IsTokenExpired: the instant of expiry itself is still in time
IsTokenExpiredStrict(expiresAt, t) ==
    IF ~IsSome(expiresAt) THEN FALSE ELSE DateParse(Val(expiresAt)) < t

\* isTokenExpired
IsTokenExpired(expiresAt, t) ==
    IF ~IsSome(expiresAt) THEN FALSE ELSE DateParse(Val(expiresAt)) <= t

\* `config.auth?.token` used as a condition
HasToken(c) == IsSome(c.auth) /\ Val(c.auth).token # ""

\* getRegistryUrl
GetRegistryUrl(eUrl, d) ==
    IF Truthy(eUrl) THEN Val(eUrl)
    ELSE LET c == LoadConfig(d)
         IN  IF IsSome(c.registry) THEN OrElse(Val(c.registry).url, DEFAULT_REGISTRY_URL)
             ELSE DEFAULT_REGISTRY_URL

\* Mutant of getAuthToken: the stored token is returned whatever its expiry
GetAuthTokenIgnoresExpiry(eTok, d, t) ==
    IF Truthy(eTok) THEN eTok
    ELSE LET c == LoadConfig(d)
         IN  IF HasToken(c) THEN Some(Val(c.auth).token) ELSE None

\* getAuthToken
GetAuthToken(eTok, d, t) ==
    IF Truthy(eTok) THEN eTok
    ELSE LET c == LoadConfig(d)
         IN  IF HasToken(c)
             THEN IF IsTokenExpired(Val(c.auth).expiresAt, t) THEN None
                  ELSE Some(Val(c.auth).token)
             ELSE None

\* Mutant of GetAuthStatus: the stored token is examined before the environment
GetAuthStatusStoredFirst(eTok, d, t) ==
    LET c == LoadConfig(d)
    IN  IF HasToken(c) /\ IsTokenExpired(Val(c.auth).expiresAt, t)
        THEN [status |-> "expired", token |-> None]
        ELSE IF Truthy(eTok) THEN [status |-> "authenticated", token |-> eTok]
        ELSE IF ~HasToken(c) THEN [status |-> "not_authenticated", token |-> None]
        ELSE [status |-> "authenticated", token |-> Some(Val(c.auth).token)]

\* Mutant of GetAuthStatus: a missing token is reported as an expired one
GetAuthStatusMissingIsExpired(eTok, d, t) ==
    IF Truthy(eTok) THEN [status |-> "authenticated", token |-> eTok]
    ELSE LET c == LoadConfig(d)
         IN  IF ~HasToken(c) THEN [status |-> "expired", token |-> None]
             ELSE IF IsTokenExpired(Val(c.auth).expiresAt, t)
                  THEN [status |-> "expired", token |-> None]
                  ELSE [status |-> "authenticated", token |-> Some(Val(c.auth).token)]

\* getAuthStatus
GetAuthStatus(eTok, d, t) ==
    IF Truthy(eTok) THEN [status |-> "authenticated", token |-> eTok]
    ELSE LET c == LoadConfig(d)
         IN  IF ~HasToken(c) THEN [status |-> "not_authenticated", token |-> None]
             ELSE IF IsTokenExpired(Val(c.auth).expiresAt, t)
                  THEN [status |-> "expired", token |-> None]
                  ELSE [status |-> "authenticated", token |-> Some(Val(c.auth).token)]

\* generateDeviceFingerprint: a hash of the machine id and the OS information,
\* or, when no machine id can be read, of the OS information and Date.now()
GenerateDeviceFingerprint(ok, t) ==
    IF ok THEN [from |-> "machine-id", salt |-> 0] ELSE [from |-> "time", salt |-> t]

\* getDeviceId: whether it calls saveConfig
GetDeviceIdSaves(d) == ~IsSome(LoadConfig(d).deviceId)

\* Mutant of GetDeviceId: the stored id is not looked at
GetDeviceIdAlwaysGenerates(d, ok, t) == GenerateDeviceFingerprint(ok, t)

\* getDeviceId: the id it returns
GetDeviceId(d, ok, t) ==
    LET c == LoadConfig(d)
    IN  IF IsSome(c.deviceId) THEN Val(c.deviceId) ELSE GenerateDeviceFingerprint(ok, t)

\* Mutant of GetDeviceIdDisk: the id is saved again when there is one
GetDeviceIdDiskAlwaysSaves(d, ok, t) ==
    SaveConfig([LoadConfig(d) EXCEPT !.deviceId = Some(GenerateDeviceFingerprint(ok, t))])

\* Mutant of GetDeviceIdDisk: a config of the new id alone is saved
GetDeviceIdDiskOnlyId(d, ok, t) ==
    LET c == LoadConfig(d)
    IN  IF IsSome(c.deviceId) THEN d
        ELSE SaveConfig([EmptyConfig EXCEPT !.deviceId =
                                                Some(GenerateDeviceFingerprint(ok, t))])

\* getDeviceId: the file it leaves
GetDeviceIdDisk(d, ok, t) ==
    LET c == LoadConfig(d)
    IN  IF IsSome(c.deviceId) THEN d
        ELSE SaveConfig([c EXCEPT !.deviceId = Some(GenerateDeviceFingerprint(ok, t))])

\* Mutant of GetDeviceIdSaved: the id is merged into the file as it is at the
\* time of the save
GetDeviceIdSavedReloads(c, d, ok, t) ==
    [LoadConfig(d) EXCEPT !.deviceId = Some(GenerateDeviceFingerprint(ok, t))]

\* getDeviceId: `{ ...config, deviceId }`, the config it passes to saveConfig
\* (c is the config it loaded, d the file at the time of the save)
GetDeviceIdSaved(c, d, ok, t) ==
    [c EXCEPT !.deviceId = Some(GenerateDeviceFingerprint(ok, t))]

----------------------------------------------------------------------------
(* The registry: the replies of its HTTP endpoints *)

NoReply == [kind |-> "none", error |-> None, error_description |-> None,
            payload |-> None]
OkReply(p) == [kind |-> "ok", error |-> None, error_description |-> None,
               payload |-> Some(p)]
ErrorReply(e) == [kind |-> "error", error |-> e, error_description |-> None,
                  payload |-> None]
ErrorReplyWith(e, m) == [kind |-> "error", error |-> e, error_description |-> m,
                         payload |-> None]
NetworkFailure == [kind |-> "network", error |-> None, error_description |-> None,
                   payload |-> None]

\* TokenResponse
TokenTtls == {None} \cup {Some(n) : n \in 0..MaxTokenTtl}
TokenResponses ==
    [access_token : Tokens, expires_in : TokenTtls, user : {None} \cup {Some(u) : u \in Users}]

\* AuthErrorResponse.error of the token endpoint; None is a body without `error`
TokenErrors ==
    {None} \cup {Some(e) : e \in {"authorization_pending", "slow_down", "expired_token",
                                  "access_denied", "server_error", ""}}

\* The error bodies that also carry an error_description
DescribedErrors ==
    {None, Some("expired_token"), Some("access_denied"), Some("server_error")}

\* The replies the token endpoint may give to request number n (from 1): a
\* planned server replies authorization_pending to the first Val(p) requests and
\* succeeds from then on; an unplanned one replies anything or is unreachable.
TokenReplies(p, n) ==
    IF IsSome(p)
    THEN IF n <= Val(p) THEN {ErrorReply(Some("authorization_pending"))}
         ELSE {OkReply(r) : r \in TokenResponses}
    ELSE {OkReply(r) : r \in TokenResponses} \cup {ErrorReply(e) : e \in TokenErrors}
         \cup {ErrorReplyWith(e, Some("Try again later")) : e \in DescribedErrors}
         \cup {NetworkFailure}

\* The failures of the device-code endpoint: an error body without a code,
\* with a code of its own, with a code of the token endpoint, or no reply
DeviceCodeFailures ==
    {ErrorReply(None), ErrorReply(Some("rate_limited")),
     ErrorReplyWith(Some("slow_down"), Some("Try again later")),
     ErrorReply(Some("authorization_pending")), NetworkFailure}

\* DeviceCodeResponse: the fields pollForToken is given
DeviceCodes == [interval : 1..MaxInterval, expires_in : 0..MaxExpiresIn]
NoDeviceCode == [interval |-> 0, expires_in |-> 0]

Lags == {0, LagMs}

\* The replies of /api/auth/me: the user, a failure status with a JSON body
\* that may lack `error` and `error_description`, or no reply at all
MeOk(u) == [kind |-> "ok", status |-> 200, error |-> None, error_description |-> None,
            payload |-> Some(u)]
MeError(st, e, m) == [kind |-> "error", status |-> st, error |-> e,
                      error_description |-> m, payload |-> None]
MeNetworkFailure == [kind |-> "network", status |-> 0, error |-> None,
                     error_description |-> None, payload |-> None]
MeReplies ==
    {MeOk(u) : u \in Users}
    \cup {MeError(st, e, m) : st \in {401, 500},
                              e \in {None, Some("server_error")},
                              m \in {None, Some("It broke")}}
    \cup {MeNetworkFailure}

----------------------------------------------------------------------------
(* Device authorization client: services/auth.service.ts *)

NoResult == [kind |-> "none", code |-> "", payload |-> None]
Returned(p) == [kind |-> "returned", code |-> "", payload |-> p]
AuthError(c) == [kind |-> "AuthError", code |-> c, payload |-> None]
OtherError == [kind |-> "Error", code |-> "", payload |-> None]

\* AuthError with its message
AuthErrorWith(m, c) == [kind |-> "AuthError", code |-> c, message |-> m, payload |-> None]

\* requestDeviceCode: `error.error || 'request_failed'`
DeviceCodeErrorCode(e) == OrElse(e, "request_failed")

\* Mutant of LoopContinues: the deadline itself still counts as in time
LoopContinuesInclusive(t, expiry) == t <= expiry

\* pollForToken: `while (Date.now() < expiryTime)`
LoopContinues(t, expiry) == t < expiry

\* Mutant of SleepMs: the loop does not wait
SleepMsNoWait(interval) == 0

\* pollForToken: the argument of sleep
SleepMs(interval) == interval * MsPerSecond

\* Mutant of ReplyOk: the status of the response is not examined
ReplyOkIgnoresStatus(r) == TRUE

\* pollForToken: `if (response.ok)`
ReplyOk(r) == r.kind = "ok"

\* pollForToken: `response.json() as TokenResponse`; a body without the
\* properties of a TokenResponse reads as undefined ones (an empty token)
JsonAsTokenResponse(r) ==
    IF IsSome(r.payload) THEN Val(r.payload)
    ELSE [access_token |-> "", expires_in |-> None, user |-> None]

\* Mutant of KeepsPolling: authorization_pending falls to the default case
KeepsPollingOnlySlowDown(e) == e = Some("slow_down")

\* pollForToken: the cases of the switch that `continue`
KeepsPolling(e) == e = Some("authorization_pending") \/ e = Some("slow_down")

\* Mutant of NextInterval: slow_down leaves the interval as it is
NextIntervalNoBackoff(cur, e) == cur

\* pollForToken: currentInterval after a reply with error e
NextInterval(cur, e) == IF e = Some("slow_down") THEN cur + SlowDownStep ELSE cur

\* Mutant of PollErrorCode: the default case drops the code of the server
PollErrorCodeDropsServerCode(e) ==
    IF e = Some("expired_token") THEN "expired_token"
    ELSE IF e = Some("access_denied") THEN "access_denied"
    ELSE "unknown_error"

\* pollForToken: the code of the AuthError raised for a reply with error e
PollErrorCode(e) ==
    IF e = Some("expired_token") THEN "expired_token"
    ELSE IF e = Some("access_denied") THEN "access_denied"
    ELSE OrElse(e, "unknown_error")

\* pollForToken: the throw after the loop
PollTimeout == AuthError("expired_token")
PollTimeoutMessage == "Login timed out. Please try again."

\* Mutant of PollErrorMessage: the description of the reply is always passed on
PollErrorMessagePassedOn(r) == OrElse(r.error_description, "Authentication failed")

\* pollForToken: the message of the AuthError it raises on a terminal reply r
PollErrorMessage(r) ==
    IF r.error = Some("expired_token") THEN PollTimeoutMessage
    ELSE IF r.error = Some("access_denied") THEN "Authorization was denied."
    ELSE OrElse(r.error_description, "Authentication failed")

\* requestDeviceCode: `error.error_description || 'Failed to request device code'`
DeviceCodeErrorMessage(m) == OrElse(m, "Failed to request device code")

\* loginCommand: the catch block prints the message of what was raised and
\* exits 1; the message of a rejected fetch is the runtime's
LoginFailed(m) == [msg |-> m, exit |-> 1]
FetchFailedMessage == "fetch failed"

----------------------------------------------------------------------------
(* Session commands: commands/login.ts, commands/logout.ts *)

\* loginCommand: `if (config.auth?.token)`
AlreadyLoggedIn(c) == HasToken(c)

\* loginCommand: expiresAt of the saved auth entry
LoginExpiresAt(expires_in, t) ==
    IF IsSome(expires_in) /\ Val(expires_in) # 0
    THEN Some(ToISOString(t + Val(expires_in) * MsPerSecond))
    ELSE None

\* Mutant of LoginCurrentConfig: the config loaded at the start is saved back
LoginStaleConfig(d, c) == c

\* loginCommand: `currentConfig`, reloaded after pollForToken (d is the file,
\* c the config loaded when the command started)
LoginCurrentConfig(d, c) == LoadConfig(d)

\* loginCommand: the config it saves
LoginConfig(currentConfig, tokenResponse, t) ==
    [currentConfig EXCEPT !.auth =
        Some([token |-> tokenResponse.access_token,
              user |-> tokenResponse.user,
              expiresAt |-> LoginExpiresAt(tokenResponse.expires_in, t)])]

\* logoutCommand: `if (!config.auth?.token)`
NotLoggedIn(c) == ~HasToken(c)

\* Mutant of GetMeResult: a 401 is handled like every other failure status
GetMeResultNo401(r) ==
    IF r.kind = "network" THEN OtherError
    ELSE IF ReplyOk(r) THEN Returned(r.payload)
    ELSE AuthErrorWith(OrElse(r.error_description, "Failed to get user info"),
                       OrElse(r.error, "request_failed"))

\* getMe, from the reply of /api/auth/me
GetMeResult(r) ==
    IF r.kind = "network" THEN OtherError
    ELSE IF ReplyOk(r) THEN Returned(r.payload)
    ELSE IF r.status = 401
         THEN AuthErrorWith("Session expired. Please login again.", "session_expired")
         ELSE AuthErrorWith(OrElse(r.error_description, "Failed to get user info"),
                            OrElse(r.error, "request_failed"))

\* getMe: `if (!token) throw`
GetMeNoToken == AuthErrorWith("Not authenticated", "not_authenticated")

\* Mutant of LogoutResult: a rejected fetch is raised to the caller
LogoutResultRethrows(r) == IF r.kind = "network" THEN OtherError ELSE Returned(None)

\* logout of the service, from the outcome r of its fetch (NoReply when it
\* sent none): the response is not examined and a rejection is caught
LogoutResult(r) == Returned(None)

\* Mutant of WhoamiExpired: the expiry of the stored token is not looked at
WhoamiExpiredUnchecked(c, t) == FALSE

\* whoamiCommand: `if (isTokenExpired(config.auth.expiresAt))`
WhoamiExpired(c, t) == IsTokenExpired(Val(c.auth).expiresAt, t)

\* whoamiCommand: what it prints last and its exit code, from the outcome of getMe
WhoamiOutcome(res) ==
    IF res.kind = "returned" THEN [msg |-> "Logged in to", exit |-> 0]
    ELSE IF res.kind = "AuthError"
    THEN IF res.code = "not_authenticated" THEN [msg |-> "Not logged in.", exit |-> 1]
         ELSE IF res.code = "session_expired" THEN [msg |-> "Session expired.", exit |-> 1]
         ELSE [msg |-> res.message, exit |-> 1]
    ELSE [msg |-> "Error", exit |-> 1]

----------------------------------------------------------------------------
(* The state machine *)

OldToken == "tokOld"
OldDeviceId == [from |-> "machine-id", salt |-> 0]
EnvValues == {None, Some(""), Some("env-value")}

\* Files the command may find: none, not JSON, valid configs (with a token that
\* never expires, one that expires at 2 s, a registry entry with and without a
\* url) and documents that violate the schema.
InitConfigs ==
    { EmptyConfig,
      [EmptyConfig EXCEPT !.deviceId = Some(OldDeviceId)],
      [EmptyConfig EXCEPT !.auth = Some([token |-> OldToken, user |-> Some(ValidUser),
                                         expiresAt |-> None])],
      [auth |-> Some([token |-> OldToken, user |-> None,
                      expiresAt |-> Some(ToISOString(2 * MsPerSecond))]),
       registry |-> Some([url |-> Some(ConfigUrl)]),
       deviceId |-> Some(OldDeviceId)],
      [EmptyConfig EXCEPT !.registry = Some([url |-> None])],
      [auth |-> Some([token |-> OldToken, user |-> None, expiresAt |-> None]),
       registry |-> Some([url |-> Some(InvalidUrl)]),
       deviceId |-> Some(OldDeviceId)] }
InitDisks == {Missing, NotJson} \cup {JsonFile(c) : c \in InitConfigs}

\* nothing printed yet, exit code 0
NoOut == [msg |-> "", exit |-> 0]

\* install locations: ./agents of a project and ~/.agentage/agents
InstallDirs == {"agents", "home"}
NoAgentFiles == [d \in InstallDirs |-> None]

\* a command without arguments
NoArgs == [op |-> "none"]

\* no second invocation: neither a getDeviceId call (dev) nor the saving part
\* of a loginCommand (login) is under way
NoProcs == [dev |-> [pc |-> "idle", config |-> EmptyConfig],
            login |-> [pc |-> "idle", currentConfig |-> EmptyConfig]]

\* the expiresAt texts a caller hands to isTokenExpired
ExpiresAts == {None} \cup {Some(ToISOString(s * MsPerSecond)) : s \in 0..MaxStartSec}

NoQuery == [token |-> None, status |-> [status |-> "none", token |-> None], url |-> "",
            config |-> EmptyConfig, expiresAt |-> None, expired |-> FALSE]

Terminal == {"refused", "codeFailed", "pollFailed", "success", "killed",
             "notLoggedIn", "loggedOut", "queried", "gotIds", "whoamiDone",
             "publishDone", "installDone", "storeDone"}

Init ==
    /\ disk \in InitDisks
    /\ envToken = None
    /\ envUrl = None
    /\ now = 0
    /\ cmd = "idle"
    /\ pc = "idle"
    /\ config = EmptyConfig
    /\ deviceCode = NoDeviceCode
    /\ sentDeviceId = None
    /\ plan = None
    /\ expiryTime = 0
    /\ currentInterval = 0
    /\ requests = 0
    /\ slowDowns = 0
    /\ lastWait = 0
    /\ reqTimes = <<0, 0>>
    /\ reply = NoReply
    /\ result = NoResult
    /\ savedAt = 0
    /\ query = NoQuery
    /\ out = NoOut
    /\ calls = <<>>
    /\ ids = <<>>
    /\ agentFiles = NoAgentFiles
    /\ args = NoArgs
    /\ procs = NoProcs

env == <<envToken, envUrl>>
ext == <<out, calls, ids, agentFiles, args, procs>>
pollVars == <<plan, expiryTime, currentInterval, requests, slowDowns, lastWait, reqTimes>>

CanStart == cmd = "idle" /\ now <= MaxStartSec * MsPerSecond

\* Time passes between two commands.
Tick ==
    /\ cmd = "idle"
    /\ now < MaxStartSec * MsPerSecond
    /\ now' = now + MsPerSecond
    /\ UNCHANGED <<disk, env, cmd, pc, config, deviceCode, sentDeviceId, pollVars,
                   reply, result, savedAt, query, ext>>

\* loginCommand, to the check for an existing login.  loginCommand reads the
\* environment only for the URL of its requests, which the model does not carry.
LoginStart ==
    /\ CanStart
    /\ cmd' = "login"
    /\ config' = LoadConfig(disk)
    /\ pc' = IF AlreadyLoggedIn(config') THEN "refused" ELSE "requestCode"
    /\ UNCHANGED <<disk, env, now, deviceCode, sentDeviceId, pollVars, reply, result,
                   savedAt, query, ext>>

\* requestDeviceCode, to the fetch: getRegistryUrl and getDeviceId
RequestDeviceCodeSend ==
    /\ cmd = "login" /\ pc = "requestCode"
    /\ \E machineIdOk \in BOOLEAN :
        /\ sentDeviceId' = Some(GetDeviceId(disk, machineIdOk, now))
        /\ disk' = GetDeviceIdDisk(disk, machineIdOk, now)
    /\ pc' = "codeFetch"
    /\ UNCHANGED <<env, now, cmd, config, deviceCode, pollVars, reply, result, savedAt,
                   query, ext>>

\* requestDeviceCode, from the reply of the device-code endpoint
RequestDeviceCodeOk ==
    /\ cmd = "login" /\ pc = "codeFetch"
    /\ deviceCode' \in DeviceCodes
    /\ reply' = [NoReply EXCEPT !.kind = "ok"]
    /\ pc' = "pollStart"
    /\ UNCHANGED <<disk, env, now, cmd, config, sentDeviceId, pollVars, result, savedAt,
                   query, ext>>

RequestDeviceCodeFail ==
    /\ cmd = "login" /\ pc = "codeFetch"
    /\ \E r \in DeviceCodeFailures :
        /\ reply' = r
        /\ result' = IF r.kind = "network" THEN OtherError
                     ELSE AuthError(DeviceCodeErrorCode(r.error))
        /\ out' = IF r.kind = "network" THEN LoginFailed(FetchFailedMessage)
                  ELSE LoginFailed(DeviceCodeErrorMessage(r.error_description))
    /\ pc' = "codeFailed"
    /\ UNCHANGED <<disk, env, now, cmd, config, deviceCode, sentDeviceId, pollVars,
                   savedAt, query, calls, ids, agentFiles, args, procs>>

\* pollForToken, to the loop
PollStart ==
    /\ cmd = "login" /\ pc = "pollStart"
    /\ expiryTime' = now + deviceCode.expires_in * MsPerSecond
    /\ currentInterval' = deviceCode.interval
    /\ plan' \in {None} \cup {Some(n) : n \in 0..MaxPending}
    /\ requests' = 0
    /\ slowDowns' = 0
    /\ lastWait' = 0
    /\ reqTimes' = <<0, 0>>
    /\ reply' = NoReply
    /\ pc' = "loop"
    /\ UNCHANGED <<disk, env, now, cmd, config, deviceCode, sentDeviceId, result,
                   savedAt, query, ext>>

\* pollForToken: the loop condition holds and the sleep ends
PollSleep ==
    /\ cmd = "login" /\ pc = "loop"
    /\ LoopContinues(now, expiryTime)
    /\ \E lag \in Lags :
        /\ lastWait' = SleepMs(currentInterval) + lag
        /\ now' = now + lastWait'
    /\ pc' = "fetch"
    /\ UNCHANGED <<disk, env, cmd, config, deviceCode, sentDeviceId, plan, expiryTime,
                   currentInterval, requests, slowDowns, reqTimes, reply, result,
                   savedAt, query, ext>>

\* pollForToken: the loop condition fails
PollExpire ==
    /\ cmd = "login" /\ pc = "loop"
    /\ ~LoopContinues(now, expiryTime)
    /\ result' = PollTimeout
    /\ out' = LoginFailed(PollTimeoutMessage)
    /\ pc' = "pollFailed"
    /\ UNCHANGED <<disk, env, now, cmd, config, deviceCode, sentDeviceId, pollVars,
                   reply, savedAt, query, calls, ids, agentFiles, args, procs>>

\* pollForToken: the request to the token endpoint and the handling of its reply
PollFetch ==
    /\ cmd = "login" /\ pc = "fetch"
    /\ requests' = requests + 1
    /\ reqTimes' = <<reqTimes[2], now>>
    /\ \E r \in TokenReplies(plan, requests + 1), lag \in Lags :
        /\ reply' = r
        /\ now' = now + lag
        /\ IF r.kind = "network"
           THEN /\ result' = OtherError
                /\ out' = LoginFailed(FetchFailedMessage)
                /\ pc' = "pollFailed"
                /\ UNCHANGED <<currentInterval, slowDowns>>
           ELSE IF ReplyOk(r)
           THEN /\ result' = Returned(Some(JsonAsTokenResponse(r)))
                /\ pc' = "saving"
                /\ UNCHANGED <<currentInterval, slowDowns, out>>
           ELSE IF KeepsPolling(r.error)
           THEN /\ currentInterval' = NextInterval(currentInterval, r.error)
                /\ slowDowns' = slowDowns + (IF r.error = Some("slow_down") THEN 1 ELSE 0)
                /\ pc' = "loop"
                /\ UNCHANGED <<result, out>>
           ELSE /\ result' = AuthError(PollErrorCode(r.error))
                /\ out' = LoginFailed(PollErrorMessage(r))
                /\ pc' = "pollFailed"
                /\ UNCHANGED <<currentInterval, slowDowns>>
    /\ UNCHANGED <<disk, env, cmd, config, deviceCode, sentDeviceId, plan, expiryTime,
                   lastWait, savedAt, query, calls, ids, agentFiles, args, procs>>

\* loginCommand, after pollForToken returned: loadConfig and saveConfig
LoginSave ==
    /\ cmd = "login" /\ pc = "saving"
    /\ disk' = SaveConfig(LoginConfig(LoginCurrentConfig(disk, config),
                                       Val(result.payload), now))
    /\ savedAt' = now
    /\ pc' = "success"
    /\ UNCHANGED <<env, now, cmd, config, deviceCode, sentDeviceId, pollVars, reply,
                   result, query, ext>>

\* logoutCommand, to the check for a login
LogoutStart ==
    /\ CanStart
    /\ cmd' = "logout"
    /\ envToken' \in EnvValues
    /\ config' = LoadConfig(disk)
    /\ pc' = IF NotLoggedIn(config') THEN "notLoggedIn" ELSE "logoutApi"
    /\ reply' = NoReply
    /\ UNCHANGED <<disk, envUrl, now, deviceCode, sentDeviceId, pollVars, result, savedAt,
                   query, ext>>

\* logout of the service: no request without a token, otherwise a request whose
\* outcome (2xx, an HTTP failure, a rejected fetch) is ignored
LogoutApi ==
    /\ cmd = "logout" /\ pc = "logoutApi"
    /\ IF ~Truthy(GetAuthToken(envToken, disk, now))
       THEN reply' = NoReply
       ELSE reply' \in {[NoReply EXCEPT !.kind = "ok"], ErrorReply(Some("server_error")),
                        NetworkFailure}
    /\ result' = LogoutResult(reply')
    /\ calls' = IF reply' = NoReply THEN <<"logout">> ELSE <<"logout", "fetch">>
    /\ pc' = "clearing"
    /\ UNCHANGED <<disk, env, now, cmd, config, deviceCode, sentDeviceId, pollVars,
                   savedAt, query, out, ids, agentFiles, args, procs>>

\* logoutCommand: clearConfig.  The catch branch of logoutCommand runs the same
\* clearConfig; the logout of the service raises nothing, so it is not entered.
LogoutClear ==
    /\ cmd = "logout" /\ pc = "clearing"
    /\ disk' = ClearConfig(disk)
    /\ pc' = "loggedOut"
    /\ UNCHANGED <<env, now, cmd, config, deviceCode, sentDeviceId, pollVars, reply,
                   result, savedAt, query, ext>>

\* A caller reads the store: getAuthToken, getAuthStatus, getRegistryUrl,
\* loadConfig
Query ==
    /\ CanStart
    /\ cmd' = "query"
    /\ pc' = "queried"
    /\ envToken' \in EnvValues
    /\ envUrl' \in EnvValues
    /\ query' = [NoQuery EXCEPT !.token = GetAuthToken(envToken', disk, now),
                                !.status = GetAuthStatus(envToken', disk, now),
                                !.url = GetRegistryUrl(envUrl', disk),
                                !.config = LoadConfig(disk)]
    /\ UNCHANGED <<ext, disk, now, config, deviceCode, sentDeviceId, pollVars, reply,
                   result, savedAt>>

\* A caller calls isTokenExpired with an expiresAt of its choice
QueryExpired ==
    /\ CanStart
    /\ cmd' = "isTokenExpired"
    /\ pc' = "queried"
    /\ \E e \in ExpiresAts :
        query' = [NoQuery EXCEPT !.expiresAt = e, !.expired = IsTokenExpired(e, now)]
    /\ UNCHANGED <<ext, disk, env, now, config, deviceCode, sentDeviceId, pollVars, reply,
                   result, savedAt>>

\* A caller calls getDeviceId
DeviceIdFirst ==
    /\ CanStart
    /\ cmd' = "deviceId"
    /\ \E machineIdOk \in BOOLEAN :
        /\ ids' = <<GetDeviceId(disk, machineIdOk, now)>>
        /\ disk' = GetDeviceIdDisk(disk, machineIdOk, now)
    /\ calls' = <<"getDeviceId">> \o
                 (IF GetDeviceIdSaves(disk) THEN <<"saveConfig">> ELSE <<>>)
    /\ pc' = "secondId"
    /\ UNCHANGED <<env, now, config, deviceCode, sentDeviceId, pollVars, reply, result,
                   savedAt, query, out, agentFiles, args, procs>>

\* and calls it again, some time later
DeviceIdSecond ==
    /\ cmd = "deviceId" /\ pc = "secondId"
    /\ \E machineIdOk \in BOOLEAN, lag \in Lags :
        /\ now' = now + lag
        /\ ids' = Append(ids, GetDeviceId(disk, machineIdOk, now'))
        /\ disk' = GetDeviceIdDisk(disk, machineIdOk, now')
    /\ calls' = calls \o <<"getDeviceId">> \o
                 (IF GetDeviceIdSaves(disk) THEN <<"saveConfig">> ELSE <<>>)
    /\ pc' = "gotIds"
    /\ UNCHANGED <<env, cmd, config, deviceCode, sentDeviceId, pollVars, reply, result,
                   savedAt, query, out, agentFiles, args, procs>>

\* whoamiCommand, to the call of getMe
WhoamiStart ==
    /\ CanStart
    /\ cmd' = "whoami"
    /\ envToken' \in EnvValues
    /\ config' = LoadConfig(disk)
    /\ args' = [op |-> "whoami", startedAt |-> now]
    /\ IF ~HasToken(config')
       THEN /\ out' = [msg |-> "Not logged in.", exit |-> 0]
            /\ pc' = "whoamiDone"
       ELSE IF WhoamiExpired(config', now)
       THEN /\ out' = [msg |-> "Session expired.", exit |-> 1]
            /\ pc' = "whoamiDone"
       ELSE /\ out' = [msg |-> "Checking authentication...", exit |-> 0]
            /\ pc' = "getMe"
    /\ UNCHANGED <<disk, envUrl, now, deviceCode, sentDeviceId, pollVars, reply, result,
                   savedAt, query, calls, ids, agentFiles, procs>>

\* getMe, to the fetch: getRegistryUrl, getAuthToken and the check of the token.
\* whoamiCommand reports the AuthError it raises.
WhoamiGetMe ==
    /\ cmd = "whoami" /\ pc = "getMe"
    /\ \E lag \in Lags : now' = now + lag
    /\ IF ~Truthy(GetAuthToken(envToken, disk, now'))
       THEN /\ calls' = <<"getMe">>
            /\ result' = GetMeNoToken
            /\ out' = WhoamiOutcome(result')
            /\ pc' = "whoamiDone"
       ELSE /\ calls' = <<"getMe", "fetch">>
            /\ pc' = "meFetch"
            /\ UNCHANGED <<result, out>>
    /\ UNCHANGED <<disk, env, cmd, config, deviceCode, sentDeviceId, pollVars, reply,
                   savedAt, query, ids, agentFiles, args, procs>>

\* getMe, from the reply of /api/auth/me, and the report of whoamiCommand
WhoamiGetMeReply ==
    /\ cmd = "whoami" /\ pc = "meFetch"
    /\ reply' \in MeReplies
    /\ result' = GetMeResult(reply')
    /\ out' = WhoamiOutcome(result')
    /\ pc' = "whoamiDone"
    /\ UNCHANGED <<disk, env, now, cmd, config, deviceCode, sentDeviceId, pollVars,
                   savedAt, query, calls, ids, agentFiles, args, procs>>

\* The process is ended (Ctrl-C) while a command waits: what it held in memory
\* is gone, the file and the latest reply of the registry are what they were
Kill ==
    /\ cmd # "idle" /\ pc \notin Terminal
    /\ pc' = "killed"
    /\ config' = EmptyConfig
    /\ deviceCode' = NoDeviceCode
    /\ sentDeviceId' = None
    /\ plan' = None
    /\ expiryTime' = 0
    /\ currentInterval' = 0
    /\ requests' = 0
    /\ slowDowns' = 0
    /\ lastWait' = 0
    /\ reqTimes' = <<0, 0>>
    /\ result' = NoResult
    /\ out' = NoOut
    /\ calls' = <<>>
    /\ ids' = <<>>
    /\ args' = NoArgs
    /\ UNCHANGED <<disk, env, now, cmd, reply, savedAt, query, agentFiles, procs>>

\* The command has ended; the next invocation starts from the file alone
Return ==
    /\ pc \in Terminal
    /\ cmd' = "idle"
    /\ pc' = "idle"
    /\ config' = EmptyConfig
    /\ deviceCode' = NoDeviceCode
    /\ sentDeviceId' = None
    /\ plan' = None
    /\ expiryTime' = 0
    /\ currentInterval' = 0
    /\ requests' = 0
    /\ slowDowns' = 0
    /\ lastWait' = 0
    /\ reqTimes' = <<0, 0>>
    /\ reply' = NoReply
    /\ result' = NoResult
    /\ savedAt' = 0
    /\ query' = NoQuery
    /\ envToken' = None
    /\ envUrl' = None
    /\ out' = NoOut
    /\ calls' = <<>>
    /\ ids' = <<>>
    /\ args' = NoArgs
    /\ UNCHANGED <<disk, now, agentFiles, procs>>

Next ==
    \/ Tick
    \/ LoginStart
    \/ RequestDeviceCodeSend
    \/ RequestDeviceCodeOk
    \/ RequestDeviceCodeFail
    \/ PollStart
    \/ PollSleep
    \/ PollExpire
    \/ PollFetch
    \/ LoginSave
    \/ LogoutStart
    \/ LogoutApi
    \/ LogoutClear
    \/ Query
    \/ QueryExpired
    \/ DeviceIdFirst
    \/ DeviceIdSecond
    \/ WhoamiStart
    \/ WhoamiGetMe
    \/ WhoamiGetMeReply
    \/ Kill
    \/ Return

Spec == Init /\ [][Next]_vars

----------------------------------------------------------------------------
(* Registry client and the agent commands: services/registry.service.ts,   *)
(* utils/agent-parser.ts, commands/publish.ts, commands/install.ts          *)

\* RegistryApiError
RegistryApiError(m, c, st) ==
    [kind |-> "RegistryApiError", code |-> c, message |-> m, statusCode |-> st,
     payload |-> None]

\* The replies of the registry API: a body for a 2xx status, a RegistryError
\* body that may lack `error` and `message` for another status, or no reply
RegistryOk(p) == [kind |-> "ok", status |-> 200, error |-> None, message |-> None,
                  payload |-> p]
RegistryFailure(st, e, m) == [kind |-> "error", status |-> st, error |-> e,
                              message |-> m, payload |-> None]
RegistryUnreachable == [kind |-> "network", status |-> 0, error |-> None,
                        message |-> None, payload |-> None]
RegistryFailures ==
    {RegistryFailure(st, e, m) : st \in {403, 404, 409},
                                 e \in {None, Some("version_exists")},
                                 m \in {None, Some("Refused")}}
    \cup {RegistryUnreachable}

\* registryFetch, from the reply
RegistryFetch(r) ==
    IF r.kind = "network" THEN OtherError
    ELSE IF ~ReplyOk(r)
    THEN RegistryApiError(OrElse(r.message, "Request failed"),
                          OrElse(r.error, "request_failed"), r.status)
    ELSE Returned(r.payload)

\* The characters of a frontmatter name: a lowercase letter, a digit, a
\* hyphen, and an uppercase letter for every other character
LowerAlnum == {"a", "7"}
NameChars == LowerAlnum \cup {"-", "A"}
AgentNames == UNION {[1..n -> NameChars] : n \in 0..MaxNameLen}

\* isValidAgentName: /^[a-z0-9][a-z0-9-]*[a-z0-9]$|^[a-z0-9]$/
IsValidAgentName(name) ==
    \/ /\ Len(name) >= 2
       /\ name[1] \in LowerAlnum
       /\ \A i \in 2..(Len(name) - 1) : name[i] \in LowerAlnum \cup {"-"}
       /\ name[Len(name)] \in LowerAlnum
    \/ /\ Len(name) = 1
       /\ name[1] \in LowerAlnum

\* What resolveAgentPath and readAgentFile may find: no agent file, a file
\* that cannot be read, a file whose frontmatter has no name or has one
NoAgentFile == [found |-> FALSE, readable |-> FALSE, name |-> None]
AgentFilesFound ==
    {[found |-> TRUE, readable |-> FALSE, name |-> None]}
    \cup {[found |-> TRUE, readable |-> TRUE, name |-> n] :
              n \in {None} \cup {Some(x) : x \in AgentNames}}

\* publishCommand: `if (!frontmatter.name)`
NameMissing(n) == ~IsSome(n) \/ Val(n) = <<>>

\* Mutant of IsDryRun: the option is not looked at
IsDryRunIgnored(options) == FALSE

\* publishCommand: `if (options.dryRun)`
IsDryRun(options) == options.dryRun

\* publishCommand: what it prints last and its exit code, from the outcome of
\* publishAgent
PublishOutcome(res) ==
    IF res.kind = "returned" THEN [msg |-> "Published", exit |-> 0]
    ELSE IF res.kind = "RegistryApiError" THEN [msg |-> res.message, exit |-> 1]
    ELSE [msg |-> "Failed", exit |-> 1]

\* publishCommand, to the search for the agent file: getAuthStatus
PublishStart ==
    /\ CanStart
    /\ cmd' = "publish"
    /\ envToken' \in EnvValues
    /\ \E dry \in BOOLEAN, f \in {NoAgentFile} \cup AgentFilesFound :
        args' = [op |-> "publish", dryRun |-> dry, file |-> f]
    /\ LET authStatus == GetAuthStatus(envToken', disk, now)
       IN  IF authStatus.status = "expired"
           THEN /\ out' = [msg |-> "Session expired.", exit |-> 1]
                /\ pc' = "publishDone"
           ELSE IF authStatus.status = "not_authenticated"
           THEN /\ out' = [msg |-> "Not logged in.", exit |-> 1]
                /\ pc' = "publishDone"
           ELSE /\ out' = NoOut
                /\ pc' = "publishRead"
    /\ UNCHANGED <<disk, envUrl, now, config, deviceCode, sentDeviceId, pollVars, reply,
                   result, savedAt, query, calls, ids, agentFiles, procs>>

\* publishCommand, from the search for the agent file to the call of
\* publishAgent: resolveAgentPath, readAgentFile, the name checks, --dry-run
PublishRead ==
    /\ cmd = "publish" /\ pc = "publishRead"
    /\ IF ~args.file.found
       THEN /\ calls' = <<"resolveAgentPath">>
            /\ out' = [msg |-> "No agent file found.", exit |-> 1]
            /\ pc' = "publishDone"
       ELSE IF ~args.file.readable
       THEN /\ calls' = <<"resolveAgentPath", "readAgentFile">>
            /\ out' = [msg |-> "Failed", exit |-> 1]
            /\ pc' = "publishDone"
       ELSE IF NameMissing(args.file.name)
       THEN /\ calls' = <<"resolveAgentPath", "readAgentFile">>
            /\ out' = [msg |-> "Agent must have a name in frontmatter.", exit |-> 1]
            /\ pc' = "publishDone"
       ELSE IF ~IsValidAgentName(Val(args.file.name))
       THEN /\ calls' = <<"resolveAgentPath", "readAgentFile">>
            /\ out' = [msg |-> "Invalid agent name.", exit |-> 1]
            /\ pc' = "publishDone"
       ELSE IF IsDryRun(args)
       THEN /\ calls' = <<"resolveAgentPath", "readAgentFile">>
            /\ out' = [msg |-> "Dry run - would publish:", exit |-> 0]
            /\ pc' = "publishDone"
       ELSE /\ calls' = <<"resolveAgentPath", "readAgentFile", "publishAgent">>
            /\ out' = [msg |-> "Publishing", exit |-> 0]
            /\ pc' = "publishSend"
    /\ UNCHANGED <<disk, env, now, cmd, config, deviceCode, sentDeviceId, pollVars,
                   reply, result, savedAt, query, ids, agentFiles, args, procs>>

\* publishAgent, from the reply of the registry, and the report of publishCommand
PublishReply ==
    /\ cmd = "publish" /\ pc = "publishSend"
    /\ reply' \in {RegistryOk(Some("published"))} \cup RegistryFailures
    /\ result' = RegistryFetch(reply')
    /\ out' = PublishOutcome(result')
    /\ pc' = "publishDone"
    /\ UNCHANGED <<disk, env, now, cmd, config, deviceCode, sentDeviceId, pollVars,
                   savedAt, query, calls, ids, agentFiles, args, procs>>

\* AgentDetail.latestContent, AgentVersionInfo.content
AgentContents == {"", "v1", "v2"}

\* getInstallDir; options.project stands for existsSync('agent.json')
GetInstallDir(options) ==
    IF options.global THEN "home"
    ELSE IF options.local THEN "agents"
    ELSE IF options.project THEN "agents"
    ELSE "home"

\* Mutant of InstallRefuses: an existing file is never a reason to stop
InstallRefusesNever(force, fileExists) == FALSE

\* installCommand: `if (!options.force)` ... `if (fileExists)`
InstallRefuses(force, fileExists) == ~force /\ fileExists

\* installCommand: what it prints last and its exit code when the fetch raised
InstallFailure(res) ==
    IF res.kind = "RegistryApiError"
    THEN IF res.statusCode = 404 THEN [msg |-> "Agent not found", exit |-> 1]
         ELSE IF res.statusCode = 403 THEN [msg |-> "Access denied.", exit |-> 1]
         ELSE [msg |-> res.message, exit |-> 1]
    ELSE [msg |-> "Failed", exit |-> 1]

\* installCommand, to the fetch: parseAgentIdentifier gave an owner or none,
\* a version or none
InstallStart ==
    /\ CanStart
    /\ cmd' = "install"
    /\ \E o \in BOOLEAN, v \in BOOLEAN, g \in BOOLEAN, l \in BOOLEAN, f \in BOOLEAN,
          p \in BOOLEAN :
        args' = [op |-> "install", owner |-> o, version |-> v, global |-> g,
                 local |-> l, force |-> f, project |-> p]
    /\ IF ~args'.owner
       THEN /\ out' = [msg |-> "Invalid format.", exit |-> 1]
            /\ pc' = "installDone"
       ELSE /\ out' = [msg |-> "Installing", exit |-> 0]
            /\ pc' = "installFetch"
    /\ UNCHANGED <<disk, env, now, config, deviceCode, sentDeviceId, pollVars, reply,
                   result, savedAt, query, calls, ids, agentFiles, procs>>

\* installCommand: getAgentVersion or getAgent, from the reply of the registry
InstallFetch ==
    /\ cmd = "install" /\ pc = "installFetch"
    /\ reply' \in {RegistryOk(Some(c)) : c \in AgentContents}
                  \cup (IF args.version THEN {RegistryOk(None)} ELSE {})
                  \cup RegistryFailures
    /\ result' = RegistryFetch(reply')
    /\ IF result'.kind # "returned"
       THEN /\ out' = InstallFailure(result')
            /\ pc' = "installDone"
       ELSE IF args.version /\ ~Truthy(result'.payload)
       THEN /\ out' = [msg |-> "Version content not available.", exit |-> 1]
            /\ pc' = "installDone"
       ELSE /\ pc' = "installWrite"
            /\ UNCHANGED out
    /\ UNCHANGED <<disk, env, now, cmd, config, deviceCode, sentDeviceId, pollVars,
                   savedAt, query, calls, ids, agentFiles, args, procs>>

\* installCommand, from the fetched content: getInstallDir, the check for an
\* existing file, mkdir and writeFile
InstallWrite ==
    /\ cmd = "install" /\ pc = "installWrite"
    /\ LET installDir == GetInstallDir(args)
       IN  IF InstallRefuses(args.force, IsSome(agentFiles[installDir]))
           THEN /\ out' = [msg |-> "Agent already exists", exit |-> 1]
                /\ UNCHANGED agentFiles
           ELSE /\ agentFiles' = [agentFiles EXCEPT ![installDir] = result.payload]
                /\ out' = [msg |-> "Installed", exit |-> 0]
    /\ pc' = "installDone"
    /\ UNCHANGED <<disk, env, now, cmd, config, deviceCode, sentDeviceId, pollVars,
                   reply, result, savedAt, query, calls, ids, args, procs>>

NextRegistry ==
    \/ Tick
    \/ PublishStart
    \/ PublishRead
    \/ PublishReply
    \/ InstallStart
    \/ InstallFetch
    \/ InstallWrite
    \/ Return

SpecRegistry == Init /\ [][NextRegistry]_vars

----------------------------------------------------------------------------
(* Two invocations on one config file: one inside getDeviceId, the other at *)
(* the end of loginCommand. Each awaits between its loadConfig and its      *)
(* saveConfig, so the steps of the two interleave in every order. `calls`   *)
(* records the order of the steps.                                          *)

InitRace ==
    /\ disk \in InitDisks
    /\ envToken = None
    /\ envUrl = None
    /\ now = 0
    /\ cmd = "race"
    /\ pc = "running"
    /\ config = EmptyConfig
    /\ deviceCode = NoDeviceCode
    /\ sentDeviceId = None
    /\ plan = None
    /\ expiryTime = 0
    /\ currentInterval = 0
    /\ requests = 0
    /\ slowDowns = 0
    /\ lastWait = 0
    /\ reqTimes = <<0, 0>>
    /\ reply = NoReply
    /\ result = NoResult
    /\ savedAt = 0
    /\ query = NoQuery
    /\ out = NoOut
    /\ calls = <<>>
    /\ ids = <<>>
    /\ agentFiles = NoAgentFiles
    /\ args = NoArgs
    /\ procs = NoProcs

raceRest == <<env, cmd, pc, config, deviceCode, sentDeviceId, pollVars, reply, savedAt,
              query, out, agentFiles, args>>

\* getDeviceId of the first invocation: loadConfig, and the return of the id
\* the config holds
RaceDeviceIdLoad ==
    /\ procs.dev.pc = "idle"
    /\ LET c == LoadConfig(disk)
       IN  /\ procs' = [procs EXCEPT !.dev = [pc |-> IF IsSome(c.deviceId) THEN "done"
                                                     ELSE "loaded",
                                              config |-> c]]
           /\ ids' = IF IsSome(c.deviceId) THEN <<Val(c.deviceId)>> ELSE <<>>
    /\ calls' = Append(calls, "devLoad")
    /\ UNCHANGED <<disk, now, result, raceRest>>

\* getDeviceId of the first invocation: generateDeviceFingerprint and saveConfig
RaceDeviceIdSave ==
    /\ procs.dev.pc = "loaded"
    /\ \E machineIdOk \in BOOLEAN, lag \in Lags :
        /\ now' = now + lag
        /\ disk' = SaveConfig(GetDeviceIdSaved(procs.dev.config, disk, machineIdOk, now'))
        /\ ids' = <<GenerateDeviceFingerprint(machineIdOk, now')>>
    /\ procs' = [procs EXCEPT !.dev.pc = "done"]
    /\ calls' = Append(calls, "devSave")
    /\ UNCHANGED <<result, raceRest>>

\* loginCommand of the second invocation: pollForToken has returned a token
\* response, loadConfig
RaceLoginLoad ==
    /\ procs.login.pc = "idle"
    /\ \E tokenResponse \in TokenResponses : result' = Returned(Some(tokenResponse))
    /\ procs' = [procs EXCEPT !.login = [pc |-> "loaded",
                                         currentConfig |-> LoadConfig(disk)]]
    /\ calls' = Append(calls, "loginLoad")
    /\ UNCHANGED <<disk, now, ids, raceRest>>

\* loginCommand of the second invocation: saveConfig
RaceLoginSave ==
    /\ procs.login.pc = "loaded"
    /\ disk' = SaveConfig(LoginConfig(procs.login.currentConfig, Val(result.payload), now))
    /\ procs' = [procs EXCEPT !.login.pc = "done"]
    /\ calls' = Append(calls, "loginSave")
    /\ UNCHANGED <<now, result, ids, raceRest>>

NextRace ==
    \/ RaceDeviceIdLoad
    \/ RaceDeviceIdSave
    \/ RaceLoginLoad
    \/ RaceLoginSave

SpecRace == InitRace /\ [][NextRace]_vars

----------------------------------------------------------------------------
(* pollForToken on its own: a caller calls it with the interval and the     *)
(* expires_in of a DeviceCodeResponse; every sleep ends and every request   *)
(* is answered or rejected                                                   *)

InitPoll ==
    /\ disk = Missing
    /\ envToken = None
    /\ envUrl = None
    /\ now = 0
    /\ cmd = "login"
    /\ pc = "pollStart"
    /\ config = EmptyConfig
    /\ deviceCode \in DeviceCodes
    /\ sentDeviceId = None
    /\ plan = None
    /\ expiryTime = 0
    /\ currentInterval = 0
    /\ requests = 0
    /\ slowDowns = 0
    /\ lastWait = 0
    /\ reqTimes = <<0, 0>>
    /\ reply = NoReply
    /\ result = NoResult
    /\ savedAt = 0
    /\ query = NoQuery
    /\ out = NoOut
    /\ calls = <<>>
    /\ ids = <<>>
    /\ agentFiles = NoAgentFiles
    /\ args = NoArgs
    /\ procs = NoProcs

NextPoll ==
    \/ PollStart
    \/ PollSleep
    \/ PollExpire
    \/ PollFetch

SpecPoll ==
    /\ InitPoll /\ [][NextPoll]_vars
    /\ WF_vars(PollStart) /\ WF_vars(PollSleep) /\ WF_vars(PollExpire)
    /\ WF_vars(PollFetch)

----------------------------------------------------------------------------
(* The credential store on a filesystem whose operations may fail *)

\* Which of readFile, mkdir, writeFile and rm fail during one call
FsFaults == [read : BOOLEAN, mkdir : BOOLEAN, write : BOOLEAN, rm : BOOLEAN]

StoreOps == {"loadConfig", "saveConfig", "clearConfig", "getRegistryUrl",
             "getAuthToken", "getAuthStatus", "getDeviceId"}

\* loadConfig: a readFile that fails is a readFile of a missing file
ReadView(d, f) == IF f.read THEN Missing ELSE d

\* saveConfig: mkdir and writeFile are awaited outside any try block
SaveConfigRaises(f) == f.mkdir \/ f.write

\* saveConfig: the files it may leave, `saved` being the file a successful
\* save leaves; a writeFile that fails leaves the file as it was or cut short
SaveConfigLeaves(d, saved, f) ==
    IF f.mkdir THEN {d}
    ELSE IF f.write THEN {d, NotJson}
    ELSE {saved}

\* clearConfig: a rm that fails is ignored
ClearConfigLeaves(d, f) == IF f.rm THEN d ELSE ClearConfig(d)

\* A caller calls one operation of the store
StoreCall ==
    /\ CanStart
    /\ cmd' = "store"
    /\ pc' = "storeDone"
    /\ \E op \in StoreOps, f \in FsFaults :
        /\ args' = [op |-> op, faults |-> f]
        /\ CASE op = "loadConfig" ->
                  /\ result' = Returned(Some(LoadConfig(ReadView(disk, f))))
                  /\ UNCHANGED disk
             [] op = "saveConfig" ->
                  /\ result' = IF SaveConfigRaises(f) THEN OtherError
                                ELSE Returned(None)
                  /\ \E c \in InitConfigs :
                        disk' \in SaveConfigLeaves(disk, SaveConfig(c), f)
             [] op = "clearConfig" ->
                  /\ result' = Returned(None)
                  /\ disk' = ClearConfigLeaves(disk, f)
             [] op = "getRegistryUrl" ->
                  /\ result' = Returned(Some(GetRegistryUrl(envUrl, ReadView(disk, f))))
                  /\ UNCHANGED disk
             [] op = "getAuthToken" ->
                  /\ result' = Returned(GetAuthToken(envToken, ReadView(disk, f), now))
                  /\ UNCHANGED disk
             [] op = "getAuthStatus" ->
                  /\ result' = Returned(Some(GetAuthStatus(envToken, ReadView(disk, f),
                                                            now)))
                  /\ UNCHANGED disk
             [] op = "getDeviceId" ->
                  \E machineIdOk \in BOOLEAN :
                    LET seen == ReadView(disk, f)
                    IN  IF ~GetDeviceIdSaves(seen)
                        THEN /\ result' = Returned(Some(GetDeviceId(seen, machineIdOk, now)))
                             /\ UNCHANGED disk
                        ELSE /\ result' = IF SaveConfigRaises(f) THEN OtherError
                                           ELSE Returned(Some(GetDeviceId(seen, machineIdOk,
                                                                          now)))
                             /\ disk' \in SaveConfigLeaves(
                                             disk, GetDeviceIdDisk(seen, machineIdOk, now), f)
    /\ UNCHANGED <<env, now, config, deviceCode, sentDeviceId, pollVars, reply, savedAt,
                   query, out, calls, ids, agentFiles, procs>>

NextFs ==
    \/ Tick
    \/ StoreCall
    \/ Return

SpecFs == Init /\ [][NextFs]_vars

----------------------------------------------------------------------------
(* Properties *)

\* pollForToken has ended (returned to loginCommand, or raised)
PollOver == cmd = "login" /\ pc \in {"saving", "success", "pollFailed"}

\* the latest reply of the token endpoint did not end the polling
LastReplyKeepsPolling == reply.kind = "error" /\ KeepsPolling(reply.error)

\* the auth entry in the text of the file
RawAuth(d) == IF d.kind = "json" THEN d.cfg.auth ELSE None

\* C1 as stated: against a server that replies authorization_pending to the
\* first N requests and then succeeds, pollForToken ends having sent exactly
\* N+1 requests and returns the payload of the success, whatever the interval
\* and expires_in.
C1_AsStated ==
    PollOver /\ IsSome(plan) =>
        /\ requests = Val(plan) + 1
        /\ reply.kind = "ok"
        /\ result = Returned(reply.payload)

\* C1 amended: against such a server pollForToken either sends exactly N+1
\* requests and returns the payload of the success, or finds the clock at or
\* past start + expires_in at a loop check before that and raises
\* expired_token after at most N requests, all of them answered pending.
C1_PendingThenSuccess ==
    PollOver /\ IsSome(plan) =>
        \/ /\ requests = Val(plan) + 1
           /\ reply.kind = "ok"
           /\ result = Returned(reply.payload)
        \/ /\ requests <= Val(plan)
           /\ now >= expiryTime
           /\ requests > 0 => reply = ErrorReply(Some("authorization_pending"))
           /\ result = AuthError("expired_token")

C1_Witness ==
    /\ PollOver /\ plan = Some(2)
    /\ requests = 3 /\ result = Returned(reply.payload) /\ reply.kind = "ok"

\* C2 as stated: whenever the clock has passed start + expires_in when
\* pollForToken ends, it ends with AuthError expired_token.
C2_AsStated ==
    PollOver /\ now > expiryTime => result = AuthError("expired_token")

\* C2 amended: a token request is only sent when the loop condition held at
\* the start of the sleep before it (the clock was before start + expires_in),
\* and when pollForToken ends without a reply that ended the polling (no
\* request, or a last reply authorization_pending or slow_down) it raises
\* expired_token with the clock at or past start + expires_in.
C2_TimeoutBackstop ==
    /\ cmd = "login" /\ pc = "fetch" => now - lastWait < expiryTime
    /\ PollOver /\ (requests = 0 \/ LastReplyKeepsPolling) =>
          /\ result = AuthError("expired_token")
          /\ pc = "pollFailed"
          /\ now >= expiryTime

C2_Witness ==
    /\ PollOver /\ requests >= 1 /\ LastReplyKeepsPolling
    /\ result = AuthError("expired_token")

\* C3: the interval is the initial one plus 5 per slow_down received (so
\* authorization_pending leaves it alone), the delay waited before a request is
\* at least that many seconds, two consecutive requests are at least the
\* latest delay apart, and after a single slow_down answered to the first
\* request the second one is sent at least interval + 5 seconds later.
C3_SlowDownDelay ==
    /\ cmd = "login" /\ pc \in {"loop", "fetch"} =>
          currentInterval = deviceCode.interval + SlowDownStep * slowDowns
    /\ cmd = "login" /\ pc = "fetch" =>
          lastWait >= (deviceCode.interval + SlowDownStep * slowDowns) * MsPerSecond
    /\ cmd = "login" /\ pc \in {"loop", "saving", "success", "pollFailed"}
          /\ requests >= 2 => reqTimes[2] - reqTimes[1] >= lastWait
    /\ PollOver /\ requests = 2 /\ slowDowns = 1 /\ reply.error # Some("slow_down") =>
          reqTimes[2] - reqTimes[1] >= (deviceCode.interval + 5) * 1000

C3_Witness ==
    /\ PollOver /\ requests = 2 /\ slowDowns = 1 /\ reply.kind = "ok"
    /\ reqTimes[2] - reqTimes[1] >= (deviceCode.interval + 5) * 1000

\* C4: a reply of the token endpoint with error expired_token or access_denied
\* ends pollForToken with an AuthError of that code, one with another code
\* (not authorization_pending, not slow_down) with the code of the server, and
\* one without a code with unknown_error.
C4_TerminalErrorCodes ==
    cmd = "login" /\ requests >= 1 /\ reply.kind = "error" /\ ~LastReplyKeepsPolling =>
        /\ pc = "pollFailed"
        /\ result.kind = "AuthError"
        /\ reply.error = Some("expired_token") => result.code = "expired_token"
        /\ reply.error = Some("access_denied") => result.code = "access_denied"
        /\ reply.error = Some("server_error") => result.code = "server_error"
        /\ reply.error \in {None, Some("")} => result.code = "unknown_error"

C4_Witness ==
    /\ cmd = "login" /\ pc = "pollFailed" /\ requests >= 1
    /\ reply = ErrorReply(Some("server_error"))
    /\ result = AuthError("server_error")

\* C5 as stated: after a successful login the file holds auth.token equal to
\* access_token, auth.expiresAt is absent exactly when the response had no
\* expires_in, and with an expires_in (0 included) auth.expiresAt is the time
\* of the save plus expires_in seconds.
C5_ExpiresAt ==
    cmd = "login" /\ pc = "success" =>
        LET p == Val(result.payload)
            a == Val(RawAuth(disk))
        IN  /\ a.token = p.access_token
            /\ ~IsSome(a.expiresAt) <=> ~IsSome(p.expires_in)
            /\ IsSome(p.expires_in) =>
                  a.expiresAt = Some(ToISOString(savedAt + Val(p.expires_in) * 1000))

\* C6 as stated: loginCommand refuses (returns before requestDeviceCode) only
\* when the stored token exists and has not expired.
C6_RefusesOnlyValidToken ==
    cmd = "login" /\ pc = "refused" =>
        /\ IsSome(LoadConfig(disk).auth)
        /\ ~IsTokenExpired(Val(LoadConfig(disk).auth).expiresAt, now)

\* C7: when logoutCommand has returned, whatever the config it started from
\* and whatever became of the request to the server (none sent, 2xx, HTTP
\* failure, rejected fetch), loadConfig finds no auth token; after the clearing
\* branch the file is gone.
C7_LogoutClears ==
    /\ cmd = "logout" /\ pc \in {"notLoggedIn", "loggedOut"} =>
          ~HasToken(LoadConfig(disk)) /\ ~IsSome(LoadConfig(disk).auth)
    /\ cmd = "logout" /\ pc = "loggedOut" => disk = Missing

C7_Witness ==
    /\ cmd = "logout" /\ pc = "loggedOut" /\ HasToken(config)
    /\ reply = NetworkFailure /\ disk = Missing

\* C8: an auth entry is written to the file only by the save step of
\* loginCommand, after the token endpoint replied with success, and it holds
\* the token of that reply; while a login attempt is under way, has failed or
\* was killed, loadConfig finds no auth entry.
C8_StateNoAuth ==
    cmd = "login" /\ pc \notin {"refused", "success"} => ~IsSome(LoadConfig(disk).auth)
C8_WriteAfterSuccess ==
    (RawAuth(disk') # RawAuth(disk) /\ IsSome(RawAuth(disk'))) =>
        /\ cmd = "login" /\ pc = "saving" /\ pc' = "success"
        /\ reply.kind = "ok"
        /\ Val(RawAuth(disk')).token = Val(reply.payload).access_token
C8_AuthOnlyAfterSuccess == [](C8_StateNoAuth) /\ [][C8_WriteAfterSuccess]_vars

C8_Witness ==
    /\ cmd = "login" /\ pc = "killed" /\ reply.kind = "ok" /\ IsSome(reply.payload)
    /\ ~IsSome(RawAuth(disk))

\* C9: the save of a successful login keeps deviceId and registry as
\* loadConfig reads them from the file at that moment (a file the schema
\* accepts), and after the login the file holds the deviceId that
\* requestDeviceCode sent.
C9_StateDeviceId ==
    cmd = "login" /\ pc = "success" =>
        /\ disk.kind = "json"
        /\ IsSome(sentDeviceId)
        /\ disk.cfg.deviceId = sentDeviceId
C9_SaveKeeps ==
    cmd = "login" /\ pc = "saving" /\ pc' = "success" =>
        /\ disk.kind = "json" /\ SchemaValid(disk.cfg)
        /\ disk'.kind = "json"
        /\ disk'.cfg.deviceId = LoadConfig(disk).deviceId
        /\ disk'.cfg.registry = LoadConfig(disk).registry
        /\ LoadConfig(disk).deviceId = disk.cfg.deviceId
C9_LoginKeepsOtherFields == [](C9_StateDeviceId) /\ [][C9_SaveKeeps]_vars

C9_Witness ==
    /\ cmd = "login" /\ pc = "success"
    /\ ~IsSome(config.deviceId) /\ disk.cfg.deviceId = sentDeviceId /\ IsSome(sentDeviceId)

\* C10: with AGENTAGE_AUTH_TOKEN set (to a non-empty text) getAuthToken returns
\* it and getAuthStatus is authenticated with it, and with AGENTAGE_REGISTRY_URL
\* set getRegistryUrl returns it, whatever the file holds.
C10_EnvOverrides ==
    cmd = "query" =>
        /\ Truthy(envToken) =>
              /\ query.token = envToken
              /\ query.status = [status |-> "authenticated", token |-> envToken]
        /\ Truthy(envUrl) => query.url = Val(envUrl)

C10_Witness ==
    /\ cmd = "query" /\ Truthy(envToken) /\ Truthy(envUrl)
    /\ HasToken(LoadConfig(disk))
    /\ IsTokenExpired(Val(LoadConfig(disk).auth).expiresAt, now)
    /\ IsSome(LoadConfig(disk).registry)
    /\ query.token = envToken /\ query.url = Val(envUrl)

\* the file holds a config the store accepts: JSON that satisfies the schema
StoredConfigReadable == disk.kind = "json" /\ SchemaValid(disk.cfg)

\* the file holds a readable config with a non-empty token
StoredTokenExists ==
    /\ StoredConfigReadable
    /\ IsSome(RawAuth(disk))
    /\ Val(RawAuth(disk)).token # ""

\* C11: getAuthStatus returns exactly one of authenticated, expired and
\* not_authenticated; it returns expired only when the file holds a token
\* whose expiresAt is at or before the current time, and not_authenticated
\* only when there is no token at all, neither in the environment nor in a
\* config the store can read.
C11_AuthStatus ==
    cmd = "query" =>
        /\ query.status.status \in {"authenticated", "expired", "not_authenticated"}
        /\ query.status.status = "expired" =>
              /\ StoredTokenExists
              /\ IsSome(Val(RawAuth(disk)).expiresAt)
              /\ Val(Val(RawAuth(disk)).expiresAt).iso <= now
        /\ query.status.status = "not_authenticated" =>
              /\ ~Truthy(envToken)
              /\ ~StoredTokenExists

\* a token that expires at this very instant is reported as expired
C11_Witness ==
    /\ cmd = "query" /\ query.status.status = "expired"
    /\ Val(Val(RawAuth(disk)).expiresAt).iso = now

\* C12: isTokenExpired of an undefined expiresAt is false, and of a timestamp
\* t it is true exactly when t is at or before the time of the call.
C12_IsTokenExpired ==
    cmd = "isTokenExpired" =>
        /\ query.expiresAt = None => query.expired = FALSE
        /\ query.expiresAt # None =>
              (query.expired <=> Val(query.expiresAt).iso <= now)

\* isTokenExpired of the current instant is true
C12_Witness ==
    /\ cmd = "isTokenExpired" /\ now > 0
    /\ query.expiresAt = Some(ToISOString(now))
    /\ query.expired

\* C13: loadConfig returns the empty config for a missing file, for a file
\* that is not JSON and for a document that violates the schema, and
\* otherwise the document with the registry url default filled in.
C13_LoadConfig ==
    cmd = "query" =>
        /\ disk.kind \in {"missing", "notjson"} => query.config = EmptyConfig
        /\ disk.kind = "json" =>
              IF \/ /\ IsSome(disk.cfg.auth)
                    /\ Val(disk.cfg.auth).user = Some(InvalidUser)
                 \/ /\ IsSome(disk.cfg.registry)
                    /\ Val(disk.cfg.registry).url = Some(InvalidUrl)
              THEN query.config = EmptyConfig
              ELSE /\ query.config.auth = disk.cfg.auth
                   /\ query.config.deviceId = disk.cfg.deviceId
                   /\ query.config.registry =
                         IF disk.cfg.registry = Some([url |-> None])
                         THEN Some([url |-> Some(DEFAULT_REGISTRY_URL)])
                         ELSE disk.cfg.registry

\* a file whose user has no valid e-mail address is loaded as the empty config
C13_Witness ==
    /\ cmd = "query" /\ disk.kind = "json"
    /\ IsSome(disk.cfg.auth) /\ Val(disk.cfg.auth).user = Some(InvalidUser)
    /\ query.config = EmptyConfig

\* a token is available to the running command: a non-empty one in its
\* environment, or a stored one that has no expiresAt or a later one
TokenAvailable ==
    \/ Truthy(envToken)
    \/ /\ StoredTokenExists
       /\ \/ Val(RawAuth(disk)).expiresAt = None
          \/ Val(Val(RawAuth(disk)).expiresAt).iso > now

\* C14: two getDeviceId calls in a row return the same id and the second
\* one calls no saveConfig, whether the id was stored before or the first
\* call generated it (from the machine id or from the clock).
C14_DeviceIdIdempotent ==
    cmd = "deviceId" /\ pc = "gotIds" =>
        /\ Len(ids) = 2
        /\ ids[1] = ids[2]
        /\ calls[Len(calls)] = "getDeviceId"
        /\ LoadConfig(disk).deviceId = Some(ids[1])

\* the first call generated the id from the clock and saved it
C14_Witness ==
    /\ cmd = "deviceId" /\ pc = "gotIds"
    /\ ids[1].from = "time"
    /\ calls = <<"getDeviceId", "saveConfig", "getDeviceId">>
    /\ now > ids[1].salt

\* C15: getMe without a token available raises not_authenticated and sends
\* no request; with one, a 401 reply raises session_expired, another failure
\* reply raises the code and the message of its body (request_failed and
\* 'Failed to get user info' where the body has none), and a success returns
\* the user.
C15_GetMe ==
    cmd = "whoami" /\ pc = "whoamiDone" /\ calls # <<>> =>
        IF ~TokenAvailable
        THEN /\ calls = <<"getMe">>
             /\ result.kind = "AuthError" /\ result.code = "not_authenticated"
        ELSE /\ calls = <<"getMe", "fetch">>
             /\ reply.kind = "ok" => result = Returned(reply.payload)
             /\ reply.kind = "error" /\ reply.status = 401 =>
                   result.kind = "AuthError" /\ result.code = "session_expired"
             /\ reply.kind = "error" /\ reply.status # 401 =>
                   /\ result.kind = "AuthError"
                   /\ result.code = IF reply.error = None
                                    THEN "request_failed" ELSE Val(reply.error)
                   /\ result.message = IF reply.error_description = None
                                       THEN "Failed to get user info"
                                       ELSE Val(reply.error_description)
             /\ reply.kind = "network" => result.kind = "Error"

\* a 401 whose body names another error is reported as session_expired
C15_Witness ==
    /\ cmd = "whoami" /\ pc = "whoamiDone"
    /\ reply.kind = "error" /\ reply.status = 401 /\ reply.error = Some("server_error")
    /\ result.kind = "AuthError" /\ result.code = "session_expired"

\* C16: logout of the service returns normally whatever becomes of its
\* request, and without a token available it sends no request.
C16_LogoutNeverRaises ==
    cmd = "logout" /\ pc = "clearing" =>
        /\ result = Returned(None)
        /\ calls[1] = "logout"
        /\ ~TokenAvailable => calls = <<"logout">> /\ reply = NoReply

\* the request was rejected and logout returned
C16_Witness ==
    /\ cmd = "logout" /\ pc = "clearing"
    /\ calls = <<"logout", "fetch">> /\ reply = NetworkFailure
    /\ result = Returned(None)

\* the stored token had expired when whoamiCommand looked at it
WhoamiLocallyExpired ==
    /\ StoredTokenExists
    /\ Val(RawAuth(disk)).expiresAt # None
    /\ Val(Val(RawAuth(disk)).expiresAt).iso <= args.startedAt

\* C17: whoamiCommand without a stored token reports 'Not logged in.' and
\* calls no getMe; with a stored token that is expired locally it reports
\* 'Session expired.' and exits 1 without calling getMe; on session_expired
\* from getMe it reports 'Session expired.' and exits 1; and getMe is called
\* only with a stored token that is not expired locally.
C17_Whoami ==
    cmd = "whoami" =>
        /\ "getMe" \in {calls[i] : i \in 1..Len(calls)} =>
              StoredTokenExists /\ ~WhoamiLocallyExpired
        /\ pc = "whoamiDone" /\ ~StoredTokenExists =>
              out = [msg |-> "Not logged in.", exit |-> 0] /\ calls = <<>>
        /\ pc = "whoamiDone" /\ WhoamiLocallyExpired =>
              out = [msg |-> "Session expired.", exit |-> 1] /\ calls = <<>>
        /\ pc = "whoamiDone" /\ result.kind = "AuthError"
              /\ result.code = "session_expired" =>
              out = [msg |-> "Session expired.", exit |-> 1]
                  /\ calls = <<"getMe", "fetch">>

\* the session is found expired locally, at the instant of its expiry
C17_Witness ==
    /\ cmd = "whoami" /\ pc = "whoamiDone"
    /\ WhoamiLocallyExpired /\ Val(Val(RawAuth(disk)).expiresAt).iso = now
    /\ out = [msg |-> "Session expired.", exit |-> 1] /\ calls = <<>>

\* the status getAuthStatus gave the running command: the file and the clock
\* are what they were when it asked
StatusAuthenticated == TokenAvailable
StatusExpired ==
    /\ ~Truthy(envToken) /\ StoredTokenExists
    /\ Val(RawAuth(disk)).expiresAt # None
    /\ Val(Val(RawAuth(disk)).expiresAt).iso <= now
StatusNotAuthenticated == ~Truthy(envToken) /\ ~StoredTokenExists

\* a name of lowercase letters, digits and hyphens that neither starts nor
\* ends with a hyphen
WellFormedName(n) ==
    /\ Len(n) > 0
    /\ \A i \in 1..Len(n) : n[i] \in {"a", "7", "-"}
    /\ n[1] # "-" /\ n[Len(n)] # "-"

\* C18: publishCommand calls publishAgent only when getAuthStatus said
\* authenticated, an agent file was resolved, its frontmatter has a valid
\* name and --dry-run is not set; with status expired or not_authenticated
\* it exits 1, with a message of its own for each, before it looks for or
\* reads an agent file.
C18_PublishGuards ==
    cmd = "publish" =>
        /\ "publishAgent" \in {calls[i] : i \in 1..Len(calls)} =>
              /\ StatusAuthenticated
              /\ args.file.found /\ args.file.readable
              /\ IsSome(args.file.name) /\ WellFormedName(Val(args.file.name))
              /\ ~args.dryRun
        /\ StatusExpired =>
              /\ pc = "publishDone" /\ calls = <<>>
              /\ out = [msg |-> "Session expired.", exit |-> 1]
        /\ StatusNotAuthenticated =>
              /\ pc = "publishDone" /\ calls = <<>>
              /\ out = [msg |-> "Not logged in.", exit |-> 1]

\* publishAgent was called, for a name with a hyphen inside
C18_Witness ==
    /\ cmd = "publish" /\ pc = "publishDone"
    /\ calls = <<"resolveAgentPath", "readAgentFile", "publishAgent">>
    /\ args.file.name = Some(<<"a", "-", "7">>)
    /\ out.exit = 0

\* the install location of the running installCommand
TargetDir ==
    IF args.global \/ (~args.local /\ ~args.project) THEN "home" ELSE "agents"

\* C19: no step changes an agent file that exists, except an installCommand
\* with --force at its target path; an installCommand without --force that
\* finds a file at its target path exits 1 and leaves every agent file as it
\* was; one with --force leaves the fetched content at its target path.
C19_InstallKeepsExisting ==
    [][/\ \A d \in InstallDirs :
            agentFiles[d] # None /\ agentFiles'[d] # agentFiles[d] =>
                cmd = "install" /\ args.force /\ d = TargetDir
       /\ cmd = "install" /\ pc = "installWrite" /\ pc' = "installDone" =>
            /\ ~args.force /\ agentFiles[TargetDir] # None =>
                  agentFiles' = agentFiles /\ out'.exit = 1
            /\ args.force =>
                  /\ agentFiles'[TargetDir] = result.payload
                  /\ out'.exit = 0]_vars

\* an install without --force found other content at its target path,
\* refused, and the file is what it was
C19_Witness ==
    /\ cmd = "install" /\ pc = "installDone" /\ ~args.force
    /\ out = [msg |-> "Agent already exists", exit |-> 1]
    /\ agentFiles[TargetDir] = Some("v1")
    /\ result.payload = Some("v2")

\* C20: no operation of the credential store raises to its caller when a
\* filesystem operation fails.
C20_StoreNeverRaises ==
    cmd = "store" => result.kind = "returned"

\* the latest reply of the token endpoint ended the polling with an error
TerminalErrorReply ==
    /\ cmd = "login" /\ pc = "pollFailed"
    /\ reply.kind = "error"
    /\ reply.error \notin {Some("authorization_pending"), Some("slow_down")}

\* once pollForToken has ended, this login sends no further token request
\* (the count only goes back to 0, when the process ends)
NoRequestAfterEnd == PollOver /\ cmd' = "login" => requests' \in {requests, 0}

\* C21 as stated: after the first success or terminal error reply no further
\* token request is sent, and the code and the message of a terminal error
\* reply reach the caller unchanged.
C21_AsStated ==
    /\ [](TerminalErrorReply /\ reply.error # None /\ reply.error_description # None =>
            /\ result.kind = "AuthError"
            /\ result.code = Val(reply.error)
            /\ out.msg = Val(reply.error_description))
    /\ [][NoRequestAfterEnd]_vars

\* C21 amended: after the first success or terminal error reply no further
\* token request is sent; the AuthError of a terminal error reply carries the
\* code of the reply (unknown_error when it has none) and, as its message,
\* 'Login timed out. Please try again.' for expired_token, 'Authorization
\* was denied.' for access_denied, and otherwise the error_description of
\* the reply ('Authentication failed' when it has none).
C21_TerminalReply ==
    /\ [](TerminalErrorReply =>
            /\ result.kind = "AuthError"
            /\ result.code = IF reply.error \in {None, Some("")} THEN "unknown_error"
                             ELSE Val(reply.error)
            /\ out.exit = 1
            /\ out.msg = IF reply.error = Some("expired_token")
                          THEN "Login timed out. Please try again."
                          ELSE IF reply.error = Some("access_denied")
                          THEN "Authorization was denied."
                          ELSE IF reply.error_description = None
                          THEN "Authentication failed"
                          ELSE Val(reply.error_description))
    /\ [][NoRequestAfterEnd]_vars

\* access_denied with a description of its own ended the polling after a
\* reply that kept it going
C21_Witness ==
    /\ TerminalErrorReply /\ requests = 2
    /\ reply = ErrorReplyWith(Some("access_denied"), Some("Try again later"))
    /\ out.msg = "Authorization was denied."

\* C22: no AuthError that reaches loginCommand from requestDeviceCode or
\* pollForToken carries the code authorization_pending or slow_down.
C22_NoInternalCodes ==
    cmd = "login" /\ result.kind = "AuthError" =>
        result.code \notin {"authorization_pending", "slow_down"}

\* a getDeviceId call of a caller takes place in this step
DeviceIdCalled == cmd' = "deviceId" /\ pc' \in {"secondId", "gotIds"} /\ pc' # pc

\* C23: a getDeviceId call that generates an id saves the config it loaded
\* with the new deviceId and the same auth and registry; a call that finds
\* an id leaves the file as it is.
C23_DeviceIdSaveKeepsFields ==
    [][DeviceIdCalled =>
        LET c == LoadConfig(disk)
        IN  IF c.deviceId = None
            THEN /\ disk'.kind = "json"
                 /\ disk'.cfg.auth = c.auth
                 /\ disk'.cfg.registry = c.registry
                 /\ disk'.cfg.deviceId = Some(ids'[Len(ids')])
            ELSE disk' = disk]_vars

\* an id was generated and saved next to a stored token
C23_Witness ==
    /\ cmd = "deviceId" /\ pc = "secondId"
    /\ calls = <<"getDeviceId", "saveConfig">>
    /\ disk.kind = "json" /\ disk.cfg.auth # None
    /\ disk.cfg.deviceId = Some(ids[1])

\* C24: pollForToken, getMe and the logout of the service leave the config
\* file as it is, and requestDeviceCode leaves the auth and the registry of
\* the config as they are and writes only when the config has no deviceId.
C24_ClientNeverPersists ==
    [][/\ \/ cmd = "login" /\ pc \in {"pollStart", "loop", "fetch"}
          \/ cmd = "whoami" /\ pc \in {"getMe", "meFetch"}
          \/ cmd = "logout" /\ pc = "logoutApi"
          => disk' = disk
       /\ cmd = "login" /\ pc \in {"requestCode", "codeFetch"} =>
            /\ LoadConfig(disk').auth = LoadConfig(disk).auth
            /\ LoadConfig(disk').registry = LoadConfig(disk).registry
            /\ LoadConfig(disk).deviceId # None => disk' = disk]_vars

\* pollForToken has returned a token and the file holds none
C24_Witness ==
    /\ cmd = "login" /\ pc = "saving"
    /\ result.kind = "returned" /\ reply.kind = "ok"
    /\ RawAuth(disk) = None
    /\ disk.kind = "json" /\ disk.cfg.registry # None

\* ceil(expires_in / interval) of the DeviceCodeResponse
MaxRequests ==
    (deviceCode.expires_in + deviceCode.interval - 1) \div deviceCode.interval

\* C25: pollForToken sends at most ceil(expires_in / interval) token
\* requests (none when expires_in is 0) and eventually returns a token or
\* raises, also when every reply is authorization_pending or slow_down.
C25_PollTerminates ==
    /\ [](requests <= MaxRequests)
    /\ <>(pc \in {"saving", "pollFailed"})

\* every reply was authorization_pending and the call ended with
\* expired_token after ceil(expires_in / interval) requests
C25_Witness ==
    /\ pc = "pollFailed" /\ result = PollTimeout
    /\ plan = None /\ slowDowns = 0
    /\ reply = ErrorReply(Some("authorization_pending"))
    /\ deviceCode.expires_in = MaxExpiresIn /\ deviceCode.interval = 1
    /\ requests = MaxExpiresIn

\* C26: getAuthToken and getAuthStatus agree: getAuthToken returns a token t
\* exactly when the status is authenticated with t, and undefined exactly
\* when the status is expired or not_authenticated.
C26_TokenAgreesWithStatus ==
    cmd = "query" /\ pc = "queried" =>
        /\ query.status.status \in {"authenticated", "expired", "not_authenticated"}
        /\ query.status.status = "authenticated" <=>
               (IsSome(query.token) /\ query.status.token = query.token)
        /\ query.status.status \in {"expired", "not_authenticated"} <=>
               query.token = None

\* both are asked about a stored token that has expired, no environment token
C26_Witness ==
    /\ cmd = "query" /\ pc = "queried"
    /\ ~Truthy(envToken)
    /\ StoredTokenExists
    /\ query.status.status = "expired"
    /\ query.token = None

\* C27: whenever AGENTAGE_AUTH_TOKEN is set, whoamiCommand calls getMe and
\* does not end with 'Not logged in.' or 'Session expired.' decided from the
\* stored config alone, also when the stored token is absent or expired.
C27_EnvTokenWinsInWhoami ==
    cmd = "whoami" /\ pc = "whoamiDone" /\ Truthy(envToken) =>
        "getMe" \in {calls[i] : i \in 1..Len(calls)}

\* the step in which getDeviceId of the first invocation saves
DeviceIdSaves == procs.dev.pc = "loaded" /\ procs'.dev.pc = "done"

\* loginCommand of the second invocation has saved after getDeviceId of the
\* first one loaded
LoginSavedSinceLoad ==
    \E i, j \in 1..Len(calls) : i < j /\ calls[i] = "devLoad" /\ calls[j] = "loginSave"

\* C28 as stated: the save of getDeviceId never removes a token that the
\* login of the other invocation saved after getDeviceId loaded the config.
C28_AsStated ==
    [][DeviceIdSaves /\ LoginSavedSinceLoad /\ HasToken(LoadConfig(disk))
          => LoadConfig(disk').auth = LoadConfig(disk).auth]_vars

\* C28: the save of getDeviceId writes the auth and registry entries that
\* getDeviceId loaded: a token the other invocation saved in between is
\* replaced by what was loaded, and the token of the file is kept when no
\* login saved between the load and the save.
C28_DeviceIdSaveWritesLoaded ==
    [][DeviceIdSaves =>
          /\ LoadConfig(disk').auth = procs.dev.config.auth
          /\ LoadConfig(disk').registry = procs.dev.config.registry
          /\ IsSome(LoadConfig(disk').deviceId)
          /\ ~LoginSavedSinceLoad => LoadConfig(disk').auth = LoadConfig(disk).auth]_vars

\* getDeviceId loaded, the login saved its token, getDeviceId saved: the
\* token is gone
C28_Witness ==
    /\ calls = <<"devLoad", "loginLoad", "loginSave", "devSave">>
    /\ result.kind = "returned"
    /\ Val(result.payload).user = Some(ValidUser)
    /\ StoredConfigReadable
    /\ ~HasToken(LoadConfig(disk))
    /\ IsSome(LoadConfig(disk).deviceId)

\* loginCommand completes with success in this step
LoginSucceeds == cmd' = "login" /\ pc' = "success" /\ pc # "success"

\* logoutCommand completes in this step
LogoutCompletes ==
    cmd' = "logout" /\ pc' \in {"notLoggedIn", "loggedOut"} /\ pc # pc'

\* C29: with commands run one at a time, the config holds an auth token
\* exactly when the most recent of the successful logins and the logouts was
\* a login: a successful login leaves a token, a logout leaves no file (so no
\* token and no deviceId), and no other step adds or removes the token.
C29_TokenFollowsLoginAndLogout ==
    [][/\ LoginSucceeds => HasToken(LoadConfig(disk'))
       /\ LogoutCompletes => disk' = Missing
       /\ ~LoginSucceeds /\ ~LogoutCompletes =>
              HasToken(LoadConfig(disk')) = HasToken(LoadConfig(disk))]_vars

\* saveConfig is called in this step (by loginCommand or by getDeviceId)
ConfigWritten == disk' # disk /\ disk'.kind = "json"

\* C30: loadConfig returns every config that loginCommand or getDeviceId has
\* written (same token, expiresAt, user and deviceId), for every token
\* response; right after a successful login whose response had no expires_in
\* getAuthStatus is authenticated with the returned access_token.
C30_SaveLoadRoundTrip ==
    /\ [][ConfigWritten => LoadConfig(disk') = disk'.cfg]_vars
    /\ [](cmd = "login" /\ pc = "success" /\ ~IsSome(Val(result.payload).expires_in)
             => GetAuthStatus(None, disk, now) =
                    [status |-> "authenticated",
                     token |-> Some(Val(result.payload).access_token)])

====
